---- MODULE Spec2Model ----
(***************************************************************************)
(* Model of the three Vitis session journals of the repository             *)
(*   src/_ide/workspace_journal_9876.py                                    *)
(*   src/_ide/workspace_journal_14312.py                                   *)
(*   src/_ide/workspace_journal_15852.py                                   *)
(* Each journal is a straight-line Python script that issues blocking      *)
(* calls against the vitis client library.  The scripts are modelled       *)
(* statement by statement; the library (component registry, errors, build  *)
(* status) is the environment, modelled from the contract of spec.md 4.1.  *)
(***************************************************************************)
EXTENDS Integers, Sequences, FiniteSets, TLC

VARIABLES
    registry,     \* workspace path -> sequence of components stored by the toolchain
    runs,         \* number of journal runs started so far
    journal,      \* the journal being run ("none" before the first run)
    pc,           \* index of the next statement of the journal
    runState,     \* "idle" | "running" | "done" | "failed" | "hung"
    session,      \* "UNINITIALIZED" | "SESSION_OPEN" | "SESSION_CLOSED"
    workspace,    \* path given to set_workspace in this run ("unset" before)
    opens,        \* sessions opened in this run
    closes,       \* sessions closed in this run
    env,          \* the script's variables: client, advanced_options, platform, comp, status
    callLog,      \* calls issued to the toolchain in this run, in order
    returns,      \* outcome of each completed call of callLog
    outstanding,  \* the call in flight, NoCall when none
    exception     \* the uncaught exception that ended the run, "none" otherwise

vars == <<registry, runs, journal, pc, runState, session, workspace, opens,
          closes, env, callLog, returns, outstanding, exception>>

----------------------------------------------------------------------------
(* Bounds *)

MaxRuns == 3

----------------------------------------------------------------------------
(* The journals, one record per statement.                                 *)
(*   line   : source line of the statement                                 *)
(*   op     : the method called                                            *)
(*   name   : the name= / path= argument ("" when there is none)           *)
(*   recv   : the script variable the method is called on                  *)
(*   target : the script variable the result is assigned to ("none")       *)

Stmt(line, op, name, recv, target) ==
    [line |-> line, op |-> op, name |-> name, recv |-> recv, target |-> target]

\* Variant: the application build is issued after the teardown.
Journal9876_BuildAfterDispose ==
    << Stmt(4,  "create_client", "", "vitis", "client"),
       Stmt(5,  "set_workspace", "vitiswork", "client", "none"),
       Stmt(7,  "get_component", "ARTY", "client", "platform"),
       Stmt(8,  "build", "", "platform", "status"),
       Stmt(10, "get_component", "app_component", "client", "comp"),
       Stmt(13, "dispose", "", "vitis", "none"),
       Stmt(11, "build", "", "comp", "none") >>

\* Variant: the platform is created by the journal itself before it is looked up.
Journal9876_CreatesFirst ==
    << Stmt(4,  "create_client", "", "vitis", "client"),
       Stmt(5,  "set_workspace", "vitiswork", "client", "none"),
       Stmt(6,  "create_platform_component", "ARTY", "client", "platform"),
       Stmt(7,  "get_component", "ARTY", "client", "platform"),
       Stmt(8,  "build", "", "platform", "status"),
       Stmt(10, "get_component", "app_component", "client", "comp"),
       Stmt(11, "build", "", "comp", "none"),
       Stmt(13, "dispose", "", "vitis", "none") >>

\* Variant: the session is rooted at another workspace path.
Journal9876_OtherWorkspace ==
    << Stmt(4,  "create_client", "", "vitis", "client"),
       Stmt(5,  "set_workspace", "vitiswork2", "client", "none"),
       Stmt(7,  "get_component", "ARTY", "client", "platform"),
       Stmt(8,  "build", "", "platform", "status"),
       Stmt(10, "get_component", "app_component", "client", "comp"),
       Stmt(11, "build", "", "comp", "none"),
       Stmt(13, "dispose", "", "vitis", "none") >>

Journal9876 ==
    << Stmt(4,  "create_client", "", "vitis", "client"),
       Stmt(5,  "set_workspace", "vitiswork", "client", "none"),
       Stmt(7,  "get_component", "ARTY", "client", "platform"),
       Stmt(8,  "build", "", "platform", "status"),
       Stmt(10, "get_component", "app_component", "client", "comp"),
       Stmt(11, "build", "", "comp", "none"),
       Stmt(13, "dispose", "", "vitis", "none") >>

\* Variant: the application component is built before the platform.
Journal14312_AppFirst ==
    << Stmt(4,  "create_client", "", "vitis", "client"),
       Stmt(5,  "set_workspace", "vitiswork", "client", "none"),
       Stmt(10, "get_component", "app_component", "client", "comp"),
       Stmt(11, "build", "", "comp", "none"),
       Stmt(7,  "get_component", "ARTY", "client", "platform"),
       Stmt(8,  "build", "", "platform", "status"),
       Stmt(13, "build", "", "platform", "status"),
       Stmt(15, "dispose", "", "vitis", "none") >>

Journal14312 ==
    << Stmt(4,  "create_client", "", "vitis", "client"),
       Stmt(5,  "set_workspace", "vitiswork", "client", "none"),
       Stmt(7,  "get_component", "ARTY", "client", "platform"),
       Stmt(8,  "build", "", "platform", "status"),
       Stmt(10, "get_component", "app_component", "client", "comp"),
       Stmt(11, "build", "", "comp", "none"),
       Stmt(13, "build", "", "platform", "status"),
       Stmt(15, "dispose", "", "vitis", "none") >>

Journal15852 ==
    << Stmt(4,  "create_client", "", "vitis", "client"),
       Stmt(5,  "set_workspace", "vitiswork", "client", "none"),
       Stmt(7,  "create_advanced_options_dict", "", "client", "advanced_options"),
       Stmt(9,  "create_platform_component", "ARTY", "client", "platform"),
       Stmt(11, "get_component", "ARTY", "client", "platform"),
       Stmt(12, "build", "", "platform", "status"),
       Stmt(14, "dispose", "", "vitis", "none") >>

Journals == {"9876", "14312", "15852"}

Program(j) ==
    CASE j = "9876"  -> Journal9876
      [] j = "14312" -> Journal14312
      [] j = "15852" -> Journal15852
      [] OTHER       -> << >>

----------------------------------------------------------------------------
(* Script variables and calls *)

Unbound == "unbound"

FreshEnv ==
    [client |-> Unbound, advanced_options |-> Unbound, platform |-> Unbound,
     comp |-> Unbound, status |-> Unbound]

NoCall == [op |-> "none", name |-> ""]

\* The call a statement issues: a build is issued on the component its
\* receiver variable is bound to, every other call carries its name= argument.
CallOf(stmt, e) ==
    [op |-> stmt.op,
     name |-> IF stmt.op = "build" THEN e[stmt.recv] ELSE stmt.name]

\* Binding the result of a call to the target variable of the statement.
Assign(e, target, value) ==
    IF target = "none" THEN e ELSE [e EXCEPT ![target] = value]

----------------------------------------------------------------------------
(* The toolchain boundary (spec.md 4.1, 7) *)

Workspaces == {"vitiswork"}

EmptyRegistry == [w \in Workspaces |-> << >>]

Names(reg, w) ==
    IF w \in DOMAIN reg THEN {reg[w][i].name : i \in 1..Len(reg[w])} ELSE {}

Count(reg, w, n) ==
    IF w \in DOMAIN reg
    THEN Cardinality({i \in 1..Len(reg[w]) : reg[w][i].name = n})
    ELSE 0

\* A stored component; run is the number of the journal run that had been
\* started last when the component was created.
Platform(n, r) == [name |-> n, kind |-> "platform", run |-> r]
Application(n, r) == [name |-> n, kind |-> "application", run |-> r]

\* create_*component: registers the component under the workspace.
Register(reg, w, c) == [reg EXCEPT ![w] = Append(@, c)]

\* Values a call can return, given the registry.
ReturnValues(call, reg, w) ==
    CASE call.op = "create_client"                -> {"client"}
      [] call.op = "set_workspace"                -> {"ok"}
      [] call.op = "create_advanced_options_dict" -> {"dict"}
      [] call.op = "create_platform_component"    ->
            IF call.name \in Names(reg, w) THEN {} ELSE {call.name}
      [] call.op = "get_component"                ->
            IF call.name \in Names(reg, w) THEN {call.name} ELSE {}
      [] call.op = "build"                        -> {"success", "failure"}
      [] call.op = "dispose"                      -> {"ok"}
      [] OTHER                                    -> {}

\* Exceptions a call can raise, given the registry.
Exceptions(call, reg, w) ==
    CASE call.op = "create_client"                -> {"EnvironmentError"}
      [] call.op = "set_workspace"                -> {"EnvironmentError"}
      [] call.op = "create_platform_component"    ->
            IF call.name \in Names(reg, w)
            THEN {"DuplicateNameError"} ELSE {"InvalidReferenceError"}
      [] call.op = "get_component"                ->
            IF call.name \in Names(reg, w) THEN {} ELSE {"NotFoundError"}
      [] call.op = "build"                        -> {"BuildFailure"}
      [] OTHER                                    -> {}

\* Variant: a build stores its component again.
RegistryAfter_BuildRegisters(call, reg, w, r) ==
    IF call.op \in {"create_platform_component", "build"}
    THEN Register(reg, w, Platform(call.name, r))
    ELSE reg

\* The registry after a call has returned.
RegistryAfter(call, reg, w, r) ==
    IF call.op = "create_platform_component"
    THEN Register(reg, w, Platform(call.name, r))
    ELSE reg

----------------------------------------------------------------------------
(* Initial state: a fresh workspace, no journal run yet *)

Init ==
    /\ registry = EmptyRegistry
    /\ runs = 0
    /\ journal = "none"
    /\ pc = 1
    /\ runState = "idle"
    /\ session = "UNINITIALIZED"
    /\ workspace = "unset"
    /\ opens = 0
    /\ closes = 0
    /\ env = FreshEnv
    /\ callLog = << >>
    /\ returns = << >>
    /\ outstanding = NoCall
    /\ exception = "none"

----------------------------------------------------------------------------
(* Actions *)

\* A journal is started as a new process: nothing of the previous run but the
\* toolchain's registry survives.
StartRun(j) ==
    /\ runState \in {"idle", "done", "failed"}
    /\ runs < MaxRuns
    /\ runs' = runs + 1
    /\ journal' = j
    /\ pc' = 1
    /\ runState' = "running"
    /\ session' = "UNINITIALIZED"
    /\ workspace' = "unset"
    /\ opens' = 0
    /\ closes' = 0
    /\ env' = FreshEnv
    /\ callLog' = << >>
    /\ returns' = << >>
    /\ outstanding' = NoCall
    /\ exception' = "none"
    /\ UNCHANGED registry

\* The next statement of the journal issues its call.  A receiver that is
\* not bound is a NameError raised before any call is made.
Issue ==
    /\ runState = "running"
    /\ outstanding = NoCall
    /\ pc <= Len(Program(journal))
    /\ LET stmt == Program(journal)[pc] IN
         IF stmt.recv # "vitis" /\ env[stmt.recv] = Unbound
         THEN /\ runState' = "failed"
              /\ exception' = "NameError"
              /\ UNCHANGED <<callLog, outstanding>>
         ELSE /\ outstanding' = CallOf(stmt, env)
              /\ callLog' = Append(callLog, CallOf(stmt, env))
              /\ UNCHANGED <<runState, exception>>
    /\ UNCHANGED <<registry, runs, journal, pc, session, workspace, opens,
                   closes, env, returns>>

\* Variant: the build status is inspected and a failure status ends the run.
Return_CheckedStatus(v) ==
    /\ runState = "running"
    /\ outstanding # NoCall
    /\ v \in ReturnValues(outstanding, registry, workspace)
    /\ LET stmt == Program(journal)[pc] IN
         /\ env' = Assign(env, stmt.target, v)
         /\ registry' = RegistryAfter(outstanding, registry, workspace, runs)
         /\ workspace' = IF stmt.op = "set_workspace" THEN stmt.name ELSE workspace
         /\ session' = CASE stmt.op = "set_workspace" -> "SESSION_OPEN"
                         [] stmt.op = "dispose"       -> "SESSION_CLOSED"
                         [] OTHER                     -> session
         /\ opens' = IF stmt.op = "set_workspace" THEN opens + 1 ELSE opens
         /\ closes' = IF stmt.op = "dispose" THEN closes + 1 ELSE closes
    /\ returns' = Append(returns, v)
    /\ outstanding' = NoCall
    /\ pc' = IF v = "failure" THEN pc ELSE pc + 1
    /\ runState' = IF v = "failure" THEN "failed"
                   ELSE IF pc + 1 > Len(Program(journal)) THEN "done" ELSE "running"
    /\ exception' = IF v = "failure" THEN "BuildFailure" ELSE exception
    /\ UNCHANGED <<runs, journal, callLog>>

\* The call in flight returns v: the result is bound to the statement's
\* target and the script moves to its next statement; after the last
\* statement the process exits normally.
Return(v) ==
    /\ runState = "running"
    /\ outstanding # NoCall
    /\ v \in ReturnValues(outstanding, registry, workspace)
    /\ LET stmt == Program(journal)[pc] IN
         /\ env' = Assign(env, stmt.target, v)
         /\ registry' = RegistryAfter(outstanding, registry, workspace, runs)
         /\ workspace' = IF stmt.op = "set_workspace" THEN stmt.name ELSE workspace
         /\ session' = CASE stmt.op = "set_workspace" -> "SESSION_OPEN"
                         [] stmt.op = "dispose"       -> "SESSION_CLOSED"
                         [] OTHER                     -> session
         /\ opens' = IF stmt.op = "set_workspace" THEN opens + 1 ELSE opens
         /\ closes' = IF stmt.op = "dispose" THEN closes + 1 ELSE closes
    /\ returns' = Append(returns, v)
    /\ outstanding' = NoCall
    /\ pc' = pc + 1
    /\ runState' = IF pc + 1 > Len(Program(journal)) THEN "done" ELSE "running"
    /\ UNCHANGED <<runs, journal, callLog, exception>>

\* Variant: the journal body runs under try/finally with the teardown in the
\* finally clause.
Raise_Finally(x) ==
    /\ runState = "running"
    /\ outstanding # NoCall
    /\ x \in Exceptions(outstanding, registry, workspace)
    /\ returns' = Append(returns, x)
    /\ outstanding' = NoCall
    /\ runState' = "failed"
    /\ exception' = x
    /\ session' = IF session = "SESSION_OPEN" THEN "SESSION_CLOSED" ELSE session
    /\ closes' = IF session = "SESSION_OPEN" THEN closes + 1 ELSE closes
    /\ UNCHANGED <<registry, runs, journal, pc, workspace, opens, env, callLog>>

\* Variant: the exception is caught and dropped and the script goes on with
\* its next statement.
Raise_Swallowed(x) ==
    /\ runState = "running"
    /\ outstanding # NoCall
    /\ x \in Exceptions(outstanding, registry, workspace)
    /\ returns' = Append(returns, x)
    /\ outstanding' = NoCall
    /\ pc' = pc + 1
    /\ runState' = IF pc + 1 > Len(Program(journal)) THEN "done" ELSE "running"
    /\ UNCHANGED <<registry, runs, journal, session, workspace, opens,
                   closes, env, callLog, exception>>

\* The call in flight raises x: no journal has a try block, so the
\* exception propagates to the top level and the process exits there.
Raise(x) ==
    /\ runState = "running"
    /\ outstanding # NoCall
    /\ x \in Exceptions(outstanding, registry, workspace)
    /\ returns' = Append(returns, x)
    /\ outstanding' = NoCall
    /\ runState' = "failed"
    /\ exception' = x
    /\ UNCHANGED <<registry, runs, journal, pc, session, workspace, opens,
                   closes, env, callLog>>

\* Variant: a build that does not return is abandoned after a timeout and the
\* script goes on with its next statement.
Hang_TimesOut ==
    /\ runState = "running"
    /\ outstanding.op = "build"
    /\ returns' = Append(returns, "timeout")
    /\ outstanding' = NoCall
    /\ pc' = pc + 1
    /\ runState' = IF pc + 1 > Len(Program(journal)) THEN "done" ELSE "running"
    /\ UNCHANGED <<registry, runs, journal, session, workspace, opens,
                   closes, env, callLog, exception>>

\* A build that never returns: the script has no timeout and stays blocked.
Hang ==
    /\ runState = "running"
    /\ outstanding.op = "build"
    /\ runState' = "hung"
    /\ UNCHANGED <<registry, runs, journal, pc, session, workspace, opens,
                   closes, env, callLog, returns, outstanding, exception>>

\* The application component is created in the IDE outside the journals of
\* this repository, while no journal is running.
CreateAppComponent ==
    /\ runState \in {"idle", "done", "failed"}
    /\ "app_component" \notin Names(registry, "vitiswork")
    /\ registry' = Register(registry, "vitiswork", Application("app_component", runs))
    /\ UNCHANGED <<runs, journal, pc, runState, session, workspace, opens,
                   closes, env, callLog, returns, outstanding, exception>>

Next ==
    \/ \E j \in Journals : StartRun(j)
    \/ Issue
    \/ \E v \in {"client", "ok", "dict", "ARTY", "app_component", "success", "failure"} :
          Return(v)
    \/ \E x \in {"EnvironmentError", "DuplicateNameError", "InvalidReferenceError",
                 "NotFoundError", "BuildFailure"} : Raise(x)
    \/ Hang
    \/ CreateAppComponent

Spec == Init /\ [][Next]_vars

----------------------------------------------------------------------------
(* Helpers of the properties *)

Call(op, name) == [op |-> op, name |-> name]

RunEnded == runState \in {"done", "failed"}

IsException(v) ==
    v \in {"EnvironmentError", "DuplicateNameError", "InvalidReferenceError",
           "NotFoundError", "BuildFailure", "NameError"}

\* The names of the components built in this run, in the order of the builds.
BuildNames ==
    LET builds == SelectSeq(callLog, LAMBDA c : c.op = "build")
    IN  [i \in 1..Len(builds) |-> builds[i].name]

\* Position of the first build of component n in the run, 0 when there is none.
FirstBuild(n) ==
    LET at == {i \in 1..Len(callLog) : callLog[i] = Call("build", n)}
    IN  IF at = {} THEN 0 ELSE CHOOSE i \in at : \A k \in at : i <= k

\* The complete call sequence of each workflow.
FullCalls(j) ==
    CASE j = "9876"  ->
            << Call("create_client", ""), Call("set_workspace", "vitiswork"),
               Call("get_component", "ARTY"), Call("build", "ARTY"),
               Call("get_component", "app_component"), Call("build", "app_component"),
               Call("dispose", "") >>
      [] j = "14312" ->
            << Call("create_client", ""), Call("set_workspace", "vitiswork"),
               Call("get_component", "ARTY"), Call("build", "ARTY"),
               Call("get_component", "app_component"), Call("build", "app_component"),
               Call("build", "ARTY"), Call("dispose", "") >>
      [] j = "15852" ->
            << Call("create_client", ""), Call("set_workspace", "vitiswork"),
               Call("create_advanced_options_dict", ""),
               Call("create_platform_component", "ARTY"),
               Call("get_component", "ARTY"), Call("build", "ARTY"),
               Call("dispose", "") >>
      [] OTHER       -> << >>

\* Component n was stored in workspace "vitiswork" before this run started.
CreatedEarlier(n) ==
    \E i \in 1..Len(registry["vitiswork"]) :
        /\ registry["vitiswork"][i].name = n
        /\ registry["vitiswork"][i].run < runs

----------------------------------------------------------------------------
(* C1: on every exit path of a run, successful or failing, the session is   *)
(* closed exactly once: when the run has ended, the number of session opens *)
(* equals the number of session closes.                                     *)
C1_OpensEqualCloses ==
    RunEnded => opens = closes

(* C7: when a call issued after the session was opened raises, the          *)
(* exception is uncaught, the raising call is the last call the script      *)
(* issues, dispose is never called and the run ends with the session open.  *)
C7_ExceptionLeaksSession ==
    (runState = "failed" /\ opens > 0) =>
        /\ IsException(exception)
        /\ outstanding = NoCall
        /\ Len(callLog) = pc
        /\ Len(returns) = pc
        /\ returns[pc] = exception
        /\ \A i \in 1..Len(callLog) : callLog[i].op # "dispose"
        /\ closes = 0
        /\ session = "SESSION_OPEN"

C7_Witness ==
    /\ runState = "failed"
    /\ journal = "14312"
    /\ exception = "BuildFailure"
    /\ session = "SESSION_OPEN"
    /\ Len(callLog) = 4

(* C4: in a run in which every call succeeds the builds are exactly those   *)
(* of the workflow, in its order: 14312 builds ARTY, app_component, ARTY;   *)
(* 9876 builds ARTY, app_component; 15852 builds ARTY only; and the         *)
(* platform is built before the application component.                      *)
C4_BuildOrder ==
    runState = "done" =>
        /\ journal = "14312" => BuildNames = <<"ARTY", "app_component", "ARTY">>
        /\ journal = "9876"  => BuildNames = <<"ARTY", "app_component">>
        /\ journal = "15852" => BuildNames = <<"ARTY">>
        /\ FirstBuild("ARTY") > 0
        /\ FirstBuild("app_component") > 0 =>
               FirstBuild("ARTY") < FirstBuild("app_component")

C4_Witness ==
    /\ runState = "done"
    /\ journal = "14312"
    /\ Len(BuildNames) = 3

(* C6: a build that returns a failure status does not change control flow:  *)
(* the run does not end there, the next call issued is the next call of the *)
(* workflow, and a run without exception issues the whole workflow, in      *)
(* order, and closes the session, whatever the statuses returned.           *)
C6_StatusIgnored ==
    /\ \A i \in 1..Len(returns) :
          returns[i] = "failure" =>
              /\ callLog[i].op = "build"
              /\ runState = "failed" => Len(returns) > i
              /\ (Len(returns) = i /\ runState = "running") => pc = i + 1
              /\ Len(callLog) > i => callLog[i + 1] = FullCalls(journal)[i + 1]
    /\ \A i \in 1..Len(callLog) : callLog[i] = FullCalls(journal)[i]
    /\ runState = "done" =>
          /\ callLog = FullCalls(journal)
          /\ session = "SESSION_CLOSED"

C6_Witness ==
    /\ runState = "done"
    /\ journal = "14312"
    /\ returns[4] = "failure"
    /\ returns[7] = "success"
    /\ callLog[8] = Call("dispose", "")

----------------------------------------------------------------------------
SessionCalls ==
    {"create_advanced_options_dict", "create_platform_component",
     "get_component", "build"}

NormalValues ==
    {"client", "ok", "dict", "ARTY", "app_component", "success", "failure"}

(* C8: every run follows UNINITIALIZED -> SESSION_OPEN -> SESSION_CLOSED:   *)
(* component calls and builds are issued only after create_client and       *)
(* set_workspace and before dispose, only while the session is open; a      *)
(* build is issued only on a component that create_platform_component or    *)
(* get_component returned earlier in the same run; and no call follows      *)
(* dispose.                                                                 *)
C8_StateMachine ==
    /\ \A i \in 1..Len(callLog) :
          /\ callLog[i].op \in SessionCalls =>
                /\ i > 2
                /\ callLog[1].op = "create_client"
                /\ callLog[2].op = "set_workspace"
                /\ returns[1] = "client" /\ returns[2] = "ok"
                /\ \A k \in 1..(i - 1) : callLog[k].op # "dispose"
          /\ callLog[i].op = "build" =>
                \E k \in 1..(i - 1) :
                    /\ callLog[k].op \in {"create_platform_component", "get_component"}
                    /\ callLog[k].name = callLog[i].name
                    /\ returns[k] = callLog[i].name
          /\ callLog[i].op = "dispose" => i = Len(callLog)
    /\ outstanding.op \in SessionCalls => session = "SESSION_OPEN"
    /\ outstanding.op = "dispose" => session = "SESSION_OPEN"
    /\ session = "UNINITIALIZED" =>
          /\ opens = 0 /\ closes = 0
          /\ Len(callLog) <= 2
    /\ session = "SESSION_OPEN" => opens = 1 /\ closes = 0
    /\ session = "SESSION_CLOSED" =>
          /\ opens = 1 /\ closes = 1
          /\ outstanding = NoCall
          /\ runState = "done"
          /\ callLog[Len(callLog)].op = "dispose"

C8_Witness ==
    /\ session = "SESSION_CLOSED"
    /\ journal = "9876"
    /\ Len(callLog) = 7

(* C9: at most one call is outstanding and a call is issued only after the  *)
(* previous one has completed; a build that never returns blocks the run    *)
(* for good, with no later call and the session never closed; dispose is    *)
(* reached only if every preceding call returned.                           *)
C9_Sequential ==
    /\ [](/\ Len(callLog) - Len(returns) \in {0, 1}
          /\ outstanding = NoCall <=> Len(callLog) = Len(returns)
          /\ outstanding # NoCall => outstanding = callLog[Len(callLog)]
          /\ runState = "hung" =>
                /\ outstanding.op = "build"
                /\ session = "SESSION_OPEN"
                /\ closes = 0
                /\ \A i \in 1..Len(callLog) : callLog[i].op # "dispose"
          /\ \A i \in 1..Len(callLog) :
                callLog[i].op = "dispose" =>
                    \A k \in 1..(i - 1) : returns[k] \in NormalValues)
    /\ [][runState = "hung" =>
            /\ runState' = "hung"
            /\ callLog' = callLog
            /\ outstanding' = outstanding
            /\ session' = session
            /\ runs' = runs]_vars

C9_Witness ==
    /\ runState = "hung"
    /\ journal = "14312"
    /\ Len(callLog) = 4
    /\ session = "SESSION_OPEN"

(* C10: a build, however it completes and however often it is repeated,     *)
(* leaves the registered components, the workspace path and the session's   *)
(* open/closed state unchanged; during a run the registry changes only      *)
(* through create_platform_component.                                       *)
C10_BuildFrame ==
    [][/\ (runState = "running" /\ outstanding.op = "build") =>
            /\ registry' = registry
            /\ workspace' = workspace
            /\ session' = session
            /\ opens' = opens
            /\ closes' = closes
       /\ (runState = "running" /\ registry' # registry) =>
            outstanding.op = "create_platform_component"]_vars

C10_Witness ==
    /\ journal = "14312"
    /\ Len(returns) >= 7
    /\ returns[4] \in {"success", "failure"}
    /\ returns[7] \in {"success", "failure"}
    /\ Names(registry, "vitiswork") = {"ARTY", "app_component"}

(* C2: get_component of a name that was never created in the workspace      *)
(* raises NotFoundError and ends the run, binding nothing; journals 9876    *)
(* and 14312 run on a workspace without ARTY get no further than their      *)
(* first get_component("ARTY"), which raises NotFoundError, and             *)
(* get_component("app_component") raises NotFoundError where app_component  *)
(* was never created.                                                       *)
C2_NotFound ==
    /\ [][(/\ runState = "running"
           /\ outstanding.op = "get_component"
           /\ outstanding.name \notin Names(registry, workspace)) =>
              /\ runState' = "failed"
              /\ exception' = "NotFoundError"
              /\ env' = env
              /\ callLog' = callLog]_vars
    /\ []((journal \in {"9876", "14312"} /\ "ARTY" \notin Names(registry, "vitiswork")) =>
              /\ Len(callLog) <= 3
              /\ Len(callLog) = 3 => callLog[3] = Call("get_component", "ARTY")
              /\ Len(returns) = 3 =>
                    /\ returns[3] = "NotFoundError"
                    /\ runState = "failed"
                    /\ env.platform = Unbound)
    /\ [](\A i \in 1..Len(returns) :
              (/\ callLog[i] = Call("get_component", "app_component")
               /\ "app_component" \notin Names(registry, "vitiswork")) =>
                  /\ returns[i] = "NotFoundError"
                  /\ runState = "failed"
                  /\ i = Len(callLog)
                  /\ env.comp = Unbound)

C2_Witness ==
    /\ journal = "9876"
    /\ Names(registry, "vitiswork") = {}
    /\ runState = "failed"
    /\ exception = "NotFoundError"
    /\ callLog[Len(callLog)] = Call("get_component", "ARTY")

(* C3: create_platform_component of a name that already exists in the       *)
(* workspace raises DuplicateNameError and leaves the registry unchanged;   *)
(* a run of journal 15852 on a workspace where an earlier run created ARTY  *)
(* fails at create_platform_component(name="ARTY"), and the registry never  *)
(* holds more than one component named ARTY.                                *)
C3_DuplicateName ==
    /\ [][(/\ runState = "running"
           /\ outstanding.op = "create_platform_component"
           /\ outstanding.name \in Names(registry, workspace)) =>
              /\ runState' = "failed"
              /\ exception' = "DuplicateNameError"
              /\ registry' = registry]_vars
    /\ [](Count(registry, "vitiswork", "ARTY") <= 1)
    /\ []((journal = "15852" /\ CreatedEarlier("ARTY") /\ Len(callLog) >= 4) =>
              /\ Len(callLog) = 4
              /\ callLog[4] = Call("create_platform_component", "ARTY")
              /\ Len(returns) = 4 =>
                    /\ returns[4] = "DuplicateNameError"
                    /\ runState = "failed")

C3_Witness ==
    /\ journal = "15852"
    /\ runs >= 2
    /\ CreatedEarlier("ARTY")
    /\ runState = "failed"
    /\ exception = "DuplicateNameError"

(* C5: the registry persists across sessions: once an earlier run on        *)
(* workspace "vitiswork" has created ARTY, get_component("ARTY") of         *)
(* journals 9876 and 14312 returns the component, not NotFoundError, and    *)
(* its build is the next call; and get_component returns a component only   *)
(* if it was created before.                                                *)
C5_RegistryPersists ==
    /\ (journal \in {"9876", "14312"} /\ CreatedEarlier("ARTY") /\ Len(returns) >= 3) =>
          /\ returns[3] = "ARTY"
          /\ callLog[3] = Call("get_component", "ARTY")
          /\ Len(callLog) >= 4 => callLog[4] = Call("build", "ARTY")
          /\ Len(returns) = 3 => (runState # "failed" /\ env.platform = "ARTY")
    /\ \A i \in 1..Len(returns) :
          (callLog[i].op = "get_component" /\ returns[i] = callLog[i].name) =>
              callLog[i].name \in Names(registry, "vitiswork")

C5_Witness ==
    /\ journal = "9876"
    /\ CreatedEarlier("ARTY")
    /\ Len(returns) >= 4
    /\ returns[3] = "ARTY"
    /\ returns[4] = "success"

====
